---- MODULE Spec2Model ----
(***************************************************************************)
(* Model of sentence_embedding_evaluation_german/data.py: the index        *)
(* splitter get_data_split and the five corpus adapters GermEval17,        *)
(* GermEval18, GermEval19, GermEval21 and GermEval21vmwe.                  *)
(*                                                                         *)
(* torch keeps ONE default random generator per process.  Its state is     *)
(* the variable gen.  torch.manual_seed overwrites it, torch.randperm      *)
(* reads and advances it.  The generator itself is abstracted to a         *)
(* counter over 0..GenMod-1; what is kept is that every draw is a function *)
(* of the generator state and nothing else.                                *)
(*                                                                         *)
(* A split ratio is written <<num, den>> (0.2 is <<1, 5>>), so that        *)
(* int(n * split_ratio) is the integer quotient (n * num) \div den.        *)
(* Tensors are sequences holding 0-based positions, as in the source.      *)
(***************************************************************************)
EXTENDS Integers, Sequences, FiniteSets, TLC

VARIABLES gen, last, ref, dset, ret

vars == <<gen, last, ref, dset, ret>>

\* ------------------------------------------------------------------ bounds
MaxRows == 5
MaxN == 3
MaxClientRows == 1
MaxSeed == 2
GenMod == 6

GenStates == 0..(GenMod - 1)
\* random_seed: 0 stands for every falsy seed (0 and None take the same branch)
Seeds == 0..MaxSeed
Sizes == 0..MaxN
Ratios == {<<0, 1>>, <<1, 5>>, <<1, 2>>}
DefaultSplitRatio == <<1, 5>>

\* ------------------------------------------------------- the random generator
\* torch.manual_seed(random_seed): the generator state becomes a function of the seed
ManualSeed(seed) == seed % GenMod

\* one draw of the generator advances its state
NextGen(g) == (g + 1) % GenMod

Swap(r, i, j) == [k \in 1..Len(r) |-> IF k = i THEN r[j] ELSE IF k = j THEN r[i] ELSE r[k]]

\* torch.randperm(n): shuffle 0..n-1, drawing from the generator at every step
RECURSIVE Shuffle(_, _, _)
Shuffle(r, i, g) ==
    IF i >= Len(r)
    THEN [perm |-> r, gen |-> g]
    ELSE Shuffle(Swap(r, i, i + (g % (Len(r) - i + 1))), i + 1, NextGen(g))

Randperm(g, n) == Shuffle([k \in 1..n |-> k - 1], 1, g)

\* ------------------------------------------------------------ get_data_split
\* (variant: the seed is never applied)
SeededGenKeep(g, random_seed) == g

\* the generator state randperm starts from: reseeded only for a truthy seed
SeededGen(g, random_seed) == IF random_seed # 0 THEN ManualSeed(random_seed) ELSE g

\* (variant: the quotient rounded up)
NValidRoundUp(n, split_ratio) == (n * split_ratio[1] + split_ratio[2] - 1) \div split_ratio[2]

\* n_valid = int(n * split_ratio)
NValid(n, split_ratio) == (n * split_ratio[1]) \div split_ratio[2]

\* get_data_split(n, split_ratio, random_seed), entered with generator state g
get_data_split(g, n, split_ratio, random_seed) ==
    LET p == Randperm(SeededGen(g, random_seed), n)
        n_valid == NValid(n, split_ratio)
    IN  [idx_train |-> SubSeq(p.perm, n_valid + 1, n),
         idx_valid |-> SubSeq(p.perm, 1, n_valid),
         gen |-> p.gen]

NoCall == [called |-> FALSE, n |-> 0, split_ratio |-> <<0, 1>>, random_seed |-> 0,
           idx_train |-> <<>>, idx_valid |-> <<>>]

\* the call a caller pinned, and whether it has called again since
NoPin == [call |-> NoCall, again |-> FALSE]

CallRecord(n, split_ratio, random_seed, s) ==
    [called |-> TRUE, n |-> n, split_ratio |-> split_ratio, random_seed |-> random_seed,
     idx_train |-> s.idx_train, idx_valid |-> s.idx_valid]


\* ------------------------------------------------------------ the adapters
Adapters == {"GermEval17", "GermEval18", "GermEval19", "GermEval21", "GermEval21vmwe"}

\* GermEval21vmwe takes no task argument
NoTask == "-"

\* the list each constructor asserts its task against
AllowedTasks(a) ==
    CASE a = "GermEval17" -> <<"Relevance", "Sentiment", "Category">>
      [] a = "GermEval18" -> <<"A", "B", "C">>
      [] a = "GermEval19" -> <<"A", "B", "C">>
      [] a = "GermEval21" -> <<"TOXIC", "ENGAGE", "FCLAIM">>
      [] OTHER -> <<NoTask>>

Range(s) == {s[k] : k \in 1..Len(s)}

ValidTasks(a) == Range(AllowedTasks(a))

\* the task values a caller passes: the allowed ones and one that is not
\* ("1" is the declared default of GermEval17/18/19)
TaskInputs(a) ==
    IF a = "GermEval21vmwe" THEN {NoTask}
    ELSE ValidTasks(a) \cup {IF a = "GermEval21" THEN "OTHER" ELSE "1"}

\* (variant: no assertion)
TaskAcceptedAny(a, task) == TRUE

\* assert task in [...]
TaskAccepted(a, task) == task \in ValidTasks(a)

Category ==
    <<"Image", "Informationen", "Connectivity",
      "Auslastung_und_Platzangebot", "Service_und_Kundenbetreuung",
      "Gastronomisches_Angebot", "Allgemein", "Design",
      "Sonstige_Unregelmaessigkeiten", "Gepaeck", "DB_App_und_Website",
      "Atmosphaere", "Zugfahrt", "Ticketkauf", "nan",
      "Reisen_mit_Kindern", "Barrierefreiheit", "Sicherheit",
      "Toiletten", "Komfort_und_Ausstattung">>

\* does the constructor assign self.labels for this task
HasLabels(a, task) ==
    CASE a = "GermEval17" -> task \in {"Relevance", "Sentiment", "Category"}
      [] a = "GermEval18" -> task \in {"A", "B"}
      [] a = "GermEval19" -> task \in {"A", "B", "C"}
      [] a = "GermEval21" -> FALSE
      [] OTHER -> TRUE

\* self.labels (<<>> where the constructor assigns none)
Labels(a, task) ==
    CASE a = "GermEval17" /\ task = "Relevance" -> <<"False", "True">>
      [] a = "GermEval17" /\ task = "Sentiment" -> <<"negative", "neutral", "positive">>
      [] a = "GermEval17" /\ task = "Category" -> Category
      [] a \in {"GermEval18", "GermEval19"} /\ task = "A" -> <<"OFFENSE", "OTHER">>
      [] a \in {"GermEval18", "GermEval19"} /\ task = "B" ->
             <<"PROFANITY", "INSULT", "ABUSE", "OTHER">>
      [] a = "GermEval19" /\ task = "C" -> <<"EXPLICIT", "IMPLICIT">>
      [] a = "GermEval21vmwe" -> <<"figuratively", "literally">>
      [] OTHER -> <<>>

\* y is built with self.labels.index(...) everywhere but in GermEval21,
\* which copies the column
EncodesByIndex(a) == a # "GermEval21"

\* split = "test" if test else "train" ("gold" in GermEval19)
SplitName(a, test) ==
    IF test THEN (IF a = "GermEval19" THEN "gold" ELSE "test") ELSE "train"

\* (variant: the test partition recognised by the name "test")
SplitActiveNotTest(a, test, early_stopping) == early_stopping /\ SplitName(a, test) # "test"

\* if early_stopping and split == "train"
SplitActive(a, test, early_stopping) == early_stopping /\ SplitName(a, test) = "train"

\* the split ratio the constructor hands to get_data_split: the call names
\* n and random_seed only, so the callee's default applies
ForwardedRatio(split_ratio) == DefaultSplitRatio

\* ------------------------------------------------------------ corpus files
\* A row is [text, label]: text 0 is a missing (non-string) text, text k > 0
\* the k-th text; label is the raw value of the column the task selects.
\* The GermEval17 category column holds "category:polarity", written as the
\* sequence of its colon-separated parts.
WellFormedLabels(a, task) ==
    CASE a = "GermEval17" /\ task = "Category" ->
             [k \in 1..Len(Category) |->
                 IF Category[k] = "nan" THEN <<"nan">> ELSE <<Category[k], "negative">>]
      [] a = "GermEval18" /\ task = "C" -> <<"EXPLICIT", "IMPLICIT">>
      [] a = "GermEval21" -> <<0, 1>>
      [] OTHER -> Labels(a, task)

\* a raw value outside the vocabulary of the task
ForeignLabel(a, task) ==
    CASE a = "GermEval17" /\ task = "Category" -> <<"Wetter", "negative">>
      [] a = "GermEval21" -> 2
      [] a = "GermEval21vmwe" -> "both"
      [] OTHER -> "UNKNOWN"

BadKinds == {"label", "text"}

\* the file with len rows whose labels run through the well-formed values
\* from the last one down; row bad (if any) is malformed in the way kind says
MkFile(a, task, len, bad, kind) ==
    LET w == WellFormedLabels(a, task)
    IN  [i \in 1..len |->
            [text |-> IF i = bad /\ kind = "text" THEN 0 ELSE i,
             label |-> IF i = bad /\ kind = "label" THEN ForeignLabel(a, task)
                       ELSE w[Len(w) - ((i - 1) % Len(w))]]]

\* where the malformed row of a file sits: first or last
BadPositions(len) == {1, len}

\* the corpus files tried: every length up to maxlen, well-formed or with one
\* malformed row
Files(a, task, maxlen) ==
    IF task \notin ValidTasks(a) THEN {<<>>}
    ELSE {MkFile(a, task, len, 0, "label") : len \in 0..maxlen}
         \cup UNION {{MkFile(a, task, len, bad, kind) : bad \in BadPositions(len), kind \in BadKinds} :
                        len \in 1..maxlen}

\* the well-formed ones among them
GoodFiles(a, task, maxlen) == {MkFile(a, task, len, 0, "label") : len \in 0..maxlen}

\* ------------------------------------------------------------ constructor steps
\* str(s).split(":")[0] on the category column of GermEval17
ColumnValue(a, task, raw) ==
    IF a = "GermEval17" /\ task = "Category" THEN Head(raw) ELSE raw

\* (variant: no adapter filters on the label)
RetainedTextOnly(a, task, file) ==
    LET conv == [i \in 1..Len(file) |->
                    [text |-> file[i].text, label |-> ColumnValue(a, task, file[i].label)]]
        keep(row) == a # "GermEval17" \/ row.text # 0
    IN  SelectSeq(conv, keep)

\* the rows np.delete leaves: GermEval17 drops rows whose text is no string,
\* GermEval21vmwe rows whose label is not in self.labels; the others drop none
Retained(a, task, file) ==
    LET conv == [i \in 1..Len(file) |->
                    [text |-> file[i].text, label |-> ColumnValue(a, task, file[i].label)]]
        keep(row) ==
            CASE a = "GermEval17" -> row.text # 0
              [] a = "GermEval21vmwe" -> row.label \in Range(Labels(a, task))
              [] OTHER -> TRUE
    IN  SelectSeq(conv, keep)

\* the external preprocesser: one feature row per text, in order
preprocesser(texts) == [i \in 1..Len(texts) |-> <<texts[i], texts[i]>>]

\* list.index: 0-based position of the first occurrence
Index(s, x) == (CHOOSE k \in 1..Len(s) : s[k] = x /\ \A j \in 1..(k - 1) : s[j] # x) - 1

\* ------------------------------------------------------------ the dataset object
\* dset is the dataset object the caller holds.  Besides the attributes the
\* constructor sets (labels, X, y, indices, idx_valid) it records the
\* arguments and the corpus file of the construction, and how far a failed
\* construction got (file_reads, preprocesser_calls).
NoDataset ==
    [status |-> "none", err |-> "", adapter |-> "", task |-> "", test |-> FALSE,
     early_stopping |-> FALSE, split_ratio |-> <<0, 1>>, file |-> <<>>,
     file_reads |-> 0, preprocesser_calls |-> 0,
     has_labels |-> FALSE, labels |-> <<>>, X |-> <<>>, y |-> <<>>,
     indices |-> <<>>, has_valid |-> FALSE, idx_valid |-> <<>>]

NoResult == [op |-> "none", arg |-> 0, status |-> "", X |-> <<>>, y |-> <<>>]

\* the constructor raised: no object, only what it did before raising
Raised(a, task, test, early_stopping, split_ratio, file, err, reads, calls) ==
    [NoDataset EXCEPT !.status = "raised", !.err = err, !.adapter = a, !.task = task,
                      !.test = test, !.early_stopping = early_stopping,
                      !.split_ratio = split_ratio, !.file = file,
                      !.file_reads = reads, !.preprocesser_calls = calls]

\* the label vector: self.labels.index(row[colidx]) per row, or the column itself
Encode(a, task, data) ==
    [i \in 1..Len(data) |->
        IF EncodesByIndex(a) THEN Index(Labels(a, task), data[i].label) ELSE data[i].label]

\* which error, if any, building y raises
EncodeError(a, task, data) ==
    IF ~EncodesByIndex(a) \/ data = <<>> THEN ""
    ELSE IF ~HasLabels(a, task) THEN "AttributeError"
    ELSE IF \E i \in 1..Len(data) : data[i].label \notin Range(Labels(a, task)) THEN "ValueError"
    ELSE ""

\* __init__ of the five adapters
Construct(a, task, test, early_stopping, split_ratio, random_seed, file) ==
    /\ IF ~TaskAccepted(a, task)
       THEN /\ dset' = Raised(a, task, test, early_stopping, split_ratio, file,
                              "AssertionError", 0, 0)
            /\ UNCHANGED gen
       ELSE \E data \in {Retained(a, task, file)} :
            \E s \in {get_data_split(gen, Len(data), ForwardedRatio(split_ratio), random_seed)} :
            LET X == preprocesser([i \in 1..Len(data) |-> data[i].text])
                err == EncodeError(a, task, data)
                n == Len(X)
                active == SplitActive(a, test, early_stopping)
            IN  IF err # ""
                THEN /\ dset' = Raised(a, task, test, early_stopping, split_ratio, file,
                                       err, 1, 1)
                     /\ UNCHANGED gen
                ELSE /\ dset' =
                          [status |-> "ok", err |-> "", adapter |-> a, task |-> task,
                           test |-> test, early_stopping |-> early_stopping,
                           split_ratio |-> split_ratio, file |-> file,
                           file_reads |-> 1, preprocesser_calls |-> 1,
                           has_labels |-> HasLabels(a, task), labels |-> Labels(a, task),
                           X |-> X, y |-> Encode(a, task, data),
                           indices |-> IF active THEN s.idx_train
                                       ELSE [k \in 1..n |-> k - 1],
                           has_valid |-> active,
                           idx_valid |-> IF active THEN s.idx_valid ELSE <<>>]
                     /\ gen' = IF active THEN s.gen ELSE gen
    /\ UNCHANGED <<last, ref, ret>>

\* __len__
Length(d) == Len(d.indices)

\* num_classes: len(self.labels), or the literal 2 of GermEval21 and GermEval21vmwe
num_classes(d) ==
    IF d.adapter \in {"GermEval21", "GermEval21vmwe"} THEN 2 ELSE Len(d.labels)

\* t[k] for a tensor or array t and 0-based position k
At(t, k) == t[k + 1]

\* t[idx] for an index tensor idx
Gather(t, idx) == [j \in 1..Len(idx) |-> At(t, idx[j])]

\* (variant: negative positions rejected)
InRangeNonNegative(m, rowidx) == 0 <= rowidx /\ rowidx < m

\* does indices[rowidx] exist: a tensor of length m takes positions -m..m-1
InRange(m, rowidx) == -m <= rowidx /\ rowidx < m

\* the position indices[rowidx] reads: a negative rowidx counts from the end
Position(m, rowidx) == IF rowidx < 0 THEN m + rowidx ELSE rowidx

\* __getitem__(rowidx)
GetItem(rowidx) ==
    /\ dset.status = "ok"
    /\ ret' = IF InRange(Length(dset), rowidx)
              THEN LET k == At(dset.indices, Position(Length(dset), rowidx))
                   IN  [op |-> "getitem", arg |-> rowidx, status |-> "ok",
                        X |-> At(dset.X, k), y |-> At(dset.y, k)]
              ELSE [op |-> "getitem", arg |-> rowidx, status |-> "IndexError",
                    X |-> <<>>, y |-> <<>>]
    /\ UNCHANGED <<gen, last, ref, dset>>

\* get_validation_set()
GetValidationSet ==
    /\ dset.status = "ok"
    /\ ret' = IF dset.has_valid
              THEN [op |-> "get_validation_set", arg |-> 0, status |-> "ok",
                    X |-> Gather(dset.X, dset.idx_valid), y |-> Gather(dset.y, dset.idx_valid)]
              ELSE [op |-> "get_validation_set", arg |-> 0, status |-> "None",
                    X |-> <<>>, y |-> <<>>]
    /\ UNCHANGED <<gen, last, ref, dset>>

\* num_classes()
NumClasses ==
    /\ dset.status = "ok"
    /\ ret' = IF dset.adapter \in {"GermEval17", "GermEval18", "GermEval19"} /\ ~dset.has_labels
              THEN [op |-> "num_classes", arg |-> 0, status |-> "AttributeError",
                    X |-> <<>>, y |-> <<>>]
              ELSE [op |-> "num_classes", arg |-> 0, status |-> "ok",
                    X |-> <<>>, y |-> num_classes(dset)]
    /\ UNCHANGED <<gen, last, ref, dset>>

\* the caller holds one dataset at a time: it constructs when it holds none
Vacant == dset.status = "none"

\* the caller drops the object (or the exception) and what it got from it
Discard ==
    /\ dset.status # "none"
    /\ dset' = NoDataset
    /\ ret' = NoResult
    /\ UNCHANGED <<gen, last, ref>>

\* a caller invokes get_data_split directly, and pins the pair its first
\* seeded call returns (ref) to compare later results with
CallGetDataSplit(n, split_ratio, random_seed) ==
    \E s \in {get_data_split(gen, n, split_ratio, random_seed)} :
    LET c == CallRecord(n, split_ratio, random_seed, s)
    IN  /\ gen' = s.gen
        /\ last' = c
        /\ ref' = IF ref.call.called THEN [ref EXCEPT !.again = TRUE]
                  ELSE IF random_seed # 0 THEN [call |-> c, again |-> FALSE]
                  ELSE ref
        /\ UNCHANGED <<dset, ret>>

Indexes == (0 - MaxRows - 1)..(MaxRows + 1)

Init ==
    /\ gen \in GenStates
    /\ last = NoCall
    /\ ref = NoPin
    /\ dset = NoDataset
    /\ ret = NoResult

\* a caller constructs a dataset of any adapter over any of the corpus files
NewDataset ==
    /\ Vacant
    /\ \E a \in Adapters, test \in BOOLEAN, early_stopping \in BOOLEAN,
          r \in Ratios, s \in Seeds :
          \E task \in TaskInputs(a) :
             \E file \in Files(a, task, MaxRows) :
                Construct(a, task, test, early_stopping, r, s, file)

\* the adapters: construct, ask for the validation set and the class count, drop
Next ==
    \/ NewDataset
    \/ GetValidationSet
    \/ NumClasses
    \/ Discard

Spec == Init /\ [][Next]_vars

\* indexed access, over the datasets of two adapters
AccessAdapters == {"GermEval17", "GermEval21vmwe"}
AccessTask(a) == IF a = "GermEval17" THEN "Sentiment" ELSE NoTask

NewDatasetForAccess ==
    /\ Vacant
    /\ \E a \in AccessAdapters, test \in BOOLEAN, early_stopping \in BOOLEAN, s \in Seeds :
          \E file \in Files(a, AccessTask(a), MaxRows) :
             Construct(a, AccessTask(a), test, early_stopping, DefaultSplitRatio, s, file)

NextAccess ==
    \/ NewDatasetForAccess
    \/ \E i \in Indexes : GetItem(i)
    \/ Discard

SpecAccess == Init /\ [][NextAccess]_vars

\* the splitter called directly, between constructions of training datasets
\* with a validation split over small corpora
NewSmallDataset ==
    /\ Vacant
    /\ \E s \in Seeds :
          \E file \in GoodFiles("GermEval21vmwe", NoTask, MaxClientRows) :
             Construct("GermEval21vmwe", NoTask, FALSE, TRUE, DefaultSplitRatio, s, file)

DirectCall ==
    \E n \in Sizes, r \in Ratios, s \in Seeds : CallGetDataSplit(n, r, s)

NextSplit ==
    \/ DirectCall
    \/ NewSmallDataset
    \/ Discard

SpecSplit == Init /\ [][NextSplit]_vars

\* ------------------------------------------------------------ properties
\* floor(n * ratio) for a ratio <<num, den>>, stated without the quotient
IsFloor(k, n, ratio) == k * ratio[2] <= n * ratio[1] /\ n * ratio[1] < (k + 1) * ratio[2]

SameCall(c, d) ==
    c.n = d.n /\ c.split_ratio = d.split_ratio /\ c.random_seed = d.random_seed

\* C1: get_data_split(n, split_ratio, seed) returns (train, valid) with
\* len(valid) = floor(n * split_ratio) and len(train) + len(valid) = n, and the
\* two hold every index of 0..n-1 exactly once between them.
C1_SplitPartitions ==
    last.called =>
        /\ IsFloor(Len(last.idx_valid), last.n, last.split_ratio)
        /\ Len(last.idx_train) + Len(last.idx_valid) = last.n
        /\ Range(last.idx_train) \cap Range(last.idx_valid) = {}
        /\ Range(last.idx_train) \cup Range(last.idx_valid) = 0..(last.n - 1)
        /\ Cardinality(Range(last.idx_train)) = Len(last.idx_train)
        /\ Cardinality(Range(last.idx_valid)) = Len(last.idx_valid)

C1_Witness ==
    /\ last.called
    /\ Len(last.idx_valid) >= 1
    /\ Len(last.idx_train) >= 2
    /\ last.split_ratio = <<1, 2>>

\* C2: two invocations of get_data_split with the same (n, split_ratio, seed)
\* and a non-zero seed return the same (train, valid), whatever calls and
\* constructions came before or between them.
C2_SeededReproducible ==
    (ref.call.called /\ ref.again /\ SameCall(ref.call, last) /\ last.random_seed # 0) =>
        (last.idx_train = ref.call.idx_train /\ last.idx_valid = ref.call.idx_valid)

\* the pinned call made again later, on two or more rows, with a dataset
\* constructed along the way
C2_Witness ==
    /\ ref.call.called /\ ref.again /\ SameCall(ref.call, last)
    /\ last.random_seed # 0
    /\ last.n >= 2
    /\ dset.status = "ok"

\* C9: the generator state is local to one invocation of get_data_split: no
\* invocation changes what a later call without a seed returns.
C9_GeneratorLocal ==
    [][\A n \in Sizes, r \in Ratios :
          LET before == get_data_split(gen, n, r, 0)
              after == get_data_split(gen', n, r, 0)
          IN  before.idx_train = after.idx_train /\ before.idx_valid = after.idx_valid]_vars

\* C3: a training dataset constructed with early_stopping and split ratio r
\* over n retained rows has floor(n * r) validation entries and length
\* n - floor(n * r).
C3_RatioForwarded ==
    (dset.status = "ok" /\ dset.early_stopping /\ ~dset.test) =>
        /\ IsFloor(Len(dset.idx_valid), Len(dset.X), dset.split_ratio)
        /\ Length(dset) = Len(dset.X) - Len(dset.idx_valid)

\* C4 as claimed: dataset[i] is (X[indices[i]], y[indices[i]]) for
\* 0 <= i < len(dataset) and an out-of-range error for every other i,
\* every negative i included.
C4_OnlyNonNegative ==
    ret.op = "getitem" =>
        IF 0 <= ret.arg /\ ret.arg < Length(dset)
        THEN /\ ret.status = "ok"
             /\ ret.X = dset.X[dset.indices[ret.arg + 1] + 1]
             /\ ret.y = dset.y[dset.indices[ret.arg + 1] + 1]
        ELSE ret.status = "IndexError"

\* C4 amended: dataset[i] is (X[indices[i]], y[indices[i]]) for
\* 0 <= i < len(dataset), it is the sample at position len(dataset) + i for
\* -len(dataset) <= i < 0, and an out-of-range error for every other i.
C4_NegativeCountsFromEnd ==
    ret.op = "getitem" =>
        LET m == Length(dset)
        IN  IF 0 <= ret.arg /\ ret.arg < m
            THEN /\ ret.status = "ok"
                 /\ ret.X = dset.X[dset.indices[ret.arg + 1] + 1]
                 /\ ret.y = dset.y[dset.indices[ret.arg + 1] + 1]
            ELSE IF 0 - m <= ret.arg /\ ret.arg < 0
            THEN /\ ret.status = "ok"
                 /\ ret.X = dset.X[dset.indices[m + ret.arg + 1] + 1]
                 /\ ret.y = dset.y[dset.indices[m + ret.arg + 1] + 1]
            ELSE ret.status = "IndexError"

C4_Witness ==
    /\ ret.op = "getitem"
    /\ ret.arg < 0
    /\ ret.status = "ok"
    /\ dset.has_valid
    /\ Len(dset.idx_valid) >= 1

\* C5: get_validation_set() returns (None, None) when the dataset was built
\* with early_stopping false or on the test partition ("gold" in GermEval19),
\* and (X[idx_valid], y[idx_valid]) exactly when early_stopping is true on
\* the training partition; the length is the number of retained rows in the
\* first case and the number of training indices in the second.
C5_ValidationSet ==
    /\ ret.op = "get_validation_set" =>
          IF dset.early_stopping /\ ~dset.test
          THEN /\ ret.status = "ok"
               /\ Len(ret.X) = Len(dset.idx_valid) /\ Len(ret.y) = Len(dset.idx_valid)
               /\ \A j \in 1..Len(dset.idx_valid) :
                     /\ ret.X[j] = dset.X[dset.idx_valid[j] + 1]
                     /\ ret.y[j] = dset.y[dset.idx_valid[j] + 1]
          ELSE ret.status = "None"
    /\ dset.status = "ok" =>
          IF dset.early_stopping /\ ~dset.test
          THEN /\ Length(dset) = Len(dset.X) - Len(dset.idx_valid)
               /\ Range(dset.indices) \cap Range(dset.idx_valid) = {}
               /\ Range(dset.indices) \cup Range(dset.idx_valid) = 0..(Len(dset.X) - 1)
          ELSE /\ Length(dset) = Len(dset.X)
               /\ ~dset.has_valid

C5_Witness ==
    /\ ret.op = "get_validation_set"
    /\ ret.status = "None"
    /\ dset.adapter = "GermEval19"
    /\ dset.test /\ dset.early_stopping
    /\ Len(dset.X) = MaxRows

\* C6: a task-parameterised adapter constructed with a task outside its
\* allowed set fails before any corpus file is read and before the
\* preprocesser is called, and no dataset results.
C6_InvalidTaskFailsFirst ==
    (dset.status # "none" /\ dset.task \notin ValidTasks(dset.adapter)) =>
        /\ dset.status = "raised"
        /\ dset.file_reads = 0
        /\ dset.preprocesser_calls = 0

C6_Witness ==
    /\ dset.status = "raised"
    /\ dset.err = "AssertionError"
    /\ dset.adapter = "GermEval21"
    /\ dset.task = "OTHER"

\* the rows of a file whose label is outside the vocabulary of the task
ForeignRows(d) ==
    {i \in 1..Len(d.file) :
        ColumnValue(d.adapter, d.task, d.file[i].label) \notin Range(Labels(d.adapter, d.task))}

\* every text of the file is a string
AllTexts(d) == \A i \in 1..Len(d.file) : d.file[i].text # 0

\* C7 as claimed: in every adapter with a label vocabulary a row whose label
\* is outside the vocabulary is dropped before the preprocesser is called:
\* construction succeeds, and with exactly one such row and no split the
\* length is the row count minus 1.
C7_ForeignLabelDropped ==
    (/\ dset.status # "none"
     /\ HasLabels(dset.adapter, dset.task)
     /\ dset.task \in ValidTasks(dset.adapter)
     /\ AllTexts(dset)
     /\ Cardinality(ForeignRows(dset)) = 1) =>
        /\ dset.status = "ok"
        /\ Len(dset.X) = Len(dset.file) - 1
        /\ ~dset.has_valid => Length(dset) = Len(dset.file) - 1

\* C7 amended: GermEval21vmwe drops a row whose label is outside its
\* vocabulary before the preprocesser is called, so that a file with exactly
\* one such row gives, with no split, a dataset of the row count minus 1;
\* GermEval17, GermEval18 and GermEval19 keep the row and fail with a
\* ValueError when they encode the labels, after the preprocesser was called.
C7_OnlyVmweDrops ==
    (/\ dset.status # "none"
     /\ HasLabels(dset.adapter, dset.task)
     /\ dset.task \in ValidTasks(dset.adapter)
     /\ AllTexts(dset)
     /\ Cardinality(ForeignRows(dset)) = 1) =>
        IF dset.adapter = "GermEval21vmwe"
        THEN /\ dset.status = "ok"
             /\ Len(dset.X) = Len(dset.file) - 1
             /\ Len(dset.y) = Len(dset.file) - 1
             /\ ~dset.has_valid => Length(dset) = Len(dset.file) - 1
        ELSE /\ dset.status = "raised"
             /\ dset.err = "ValueError"
             /\ dset.preprocesser_calls = 1

C7_Witness ==
    /\ dset.status = "ok"
    /\ dset.adapter = "GermEval21vmwe"
    /\ Cardinality(ForeignRows(dset)) = 1
    /\ ~dset.has_valid
    /\ Length(dset) = MaxRows - 1

\* C8: in every constructed dataset the label vector has one entry per
\* retained row and every entry is an integer in 0..num_classes()-1.
C8_LabelsAreClassIndices ==
    dset.status = "ok" =>
        /\ Len(dset.y) = Len(dset.X)
        /\ \A i \in 1..Len(dset.y) : 0 <= dset.y[i] /\ dset.y[i] < num_classes(dset)

\* C10: every task the allowed-set check of an adapter accepts has a label
\* vocabulary, so that construction over a well-formed corpus file gives a
\* dataset with labels, X, y and indices set.
C10_AcceptedTaskHasVocabulary ==
    (/\ dset.status # "none"
     /\ EncodesByIndex(dset.adapter)
     /\ dset.task \in ValidTasks(dset.adapter)
     /\ dset.file \in GoodFiles(dset.adapter, dset.task, MaxRows)) =>
        /\ dset.status = "ok"
        /\ dset.has_labels

====
